---------------------------- MODULE Spec2Model ----------------------------
(***************************************************************************)
(* Model of the two orchestration engines of the Agentic RAG system:       *)
(*   - SupervisedRAGWorkflow (src/supervised_workflow.py), the LangGraph   *)
(*     graph research -> analysis -> supervisor -> {research, writer, END} *)
(*   - MultiAgentOrchestrator.process_query (src/agents.py), the explicit  *)
(*     while loop over research / analysis / writing.                      *)
(* The three agents (ResearchAgent, AnalysisAgent, WriterAgent) wrap an    *)
(* LLM; what the LLM answers, and whether the call raises, is the          *)
(* nondeterministic input of every step.                                   *)
(*                                                                         *)
(* Texts the code inspects (the RECOMMENDATION and SUFFICIENT values) are  *)
(* sequences of one-character strings, so that lower() and the substring   *)
(* test `in` are computed as Python computes them.  Texts the code only    *)
(* passes along are TLA+ strings.                                          *)
(***************************************************************************)
EXTENDS Integers, Sequences, FiniteSets, TLC

VARIABLES
    pc,        \* position of the run: "idle", a graph node / loop position, "done"
    engine,    \* "none" | "workflow" | "orchestrator": which engine runs
    state,     \* WorkflowState of the SupervisedRAGWorkflow run
    loc,       \* local variables of MultiAgentOrchestrator.process_query
    result,    \* the dict returned by run / process_query
    calls,     \* history of collaborator calls of the run (observation only)
    runs,      \* the run() calls of several callers on one workflow instance
    memory,    \* self.memory: the MemorySaver's checkpoint of every thread
    facade     \* the AgenticRAGSystem object: its vector store and its tools

vars == <<pc, engine, state, loc, result, calls, runs, memory, facade>>

----------------------------------------------------------------------------
(* Bounds *)

\* Largest max_iterations handed to process_query.
MaxBudget == 3

\* WorkflowState.max_iterations, the only budget run() ever uses.
DefaultMaxIterations == 3

\* The queries a caller may pass (app.py rejects "" itself; run does not).
Queries == {"", "q"}

----------------------------------------------------------------------------
(* Python string operations on sequences of characters *)

Upper == <<"A","B","C","D","E","F","G","H","I","J","K","L","M",
           "N","O","P","Q","R","S","T","U","V","W","X","Y","Z">>
LowerLetters == <<"a","b","c","d","e","f","g","h","i","j","k","l","m",
                  "n","o","p","q","r","s","t","u","v","w","x","y","z">>

\* str.lower() on one character
LowerChar(c) ==
    IF \E i \in 1..26 : Upper[i] = c
    THEN LowerLetters[CHOOSE i \in 1..26 : Upper[i] = c]
    ELSE c

\* str.lower()
Lower(s) == [i \in 1..Len(s) |-> LowerChar(s[i])]

\* Python's `sub in s`
Contains(sub, s) ==
    \E i \in 0..(Len(s) - Len(sub)) : SubSeq(s, i + 1, i + Len(sub)) = sub

\* The RECOMMENDATION tokens the analysis prompt documents (agents.py:121)
proceed_to_writing ==
    <<"p","r","o","c","e","e","d","_","t","o","_","w","r","i","t","i","n","g">>
need_web_search ==
    <<"n","e","e","d","_","w","e","b","_","s","e","a","r","c","h">>
need_more_research ==
    <<"n","e","e","d","_","m","o","r","e","_","r","e","s","e","a","r","c","h">>
\* Other things an LLM may put after "RECOMMENDATION:"
NEED_WEB_SEARCH ==
    <<"N","E","E","D","_","W","E","B","_","S","E","A","R","C","H">>
try_a_web_search ==
    <<"T","r","y"," ","a"," ","w","e","b"," ","s","e","a","r","c","h">>

\* The literals the two engines look for
WebSearchSpaced == <<"w","e","b"," ","s","e","a","r","c","h">>
WebSearchToken == <<"w","e","b","_","s","e","a","r","c","h">>
MoreResearchToken ==
    <<"m","o","r","e","_","r","e","s","e","a","r","c","h">>
YesText == <<"y","e","s">>
EmptyText == <<>>

RecommendationTexts ==
    {proceed_to_writing, need_web_search, need_more_research,
     NEED_WEB_SEARCH, try_a_web_search}

SufficientTexts == {<<"Y","e","s">>, <<"y","e","s">>, <<"N","o">>}

----------------------------------------------------------------------------
(* The agents (src/agents.py).  The last parameter of each is what the LLM *)
(* did on this call.                                                       *)

\* What the react agent can do on one research call: raise, or answer with a
\* text.
ResearchOutcomes == {"raise", "answer"}

\* ResearchAgent.research
Research(query, prefer_web, outcome) ==
    IF outcome = "raise"
    THEN [query |-> query, result |-> "Research failed: e",
          success |-> FALSE, error |-> "e"]
    ELSE [query |-> query,
          result |-> "research text",
          success |-> TRUE, error |-> ""]

\* research() without its except clause: the exception leaves the method
ResearchPropagates_NoExcept(outcome) == outcome = "raise"

\* Whether an exception raised inside research() leaves the method: its whole
\* body is inside `try: ... except Exception`, which returns a dict.
ResearchPropagates(outcome) == FALSE

\* What the LLM can do on one analysis call: raise, or answer a text whose
\* "KEY: value" lines do or do not hold SUFFICIENT and RECOMMENDATION.
AnalysisResponses ==
    [raises : {TRUE}, has_suff : {FALSE}, SUFFICIENT : {EmptyText},
     has_rec : {FALSE}, RECOMMENDATION : {EmptyText}]
    \cup
    [raises : {FALSE}, has_suff : {TRUE}, SUFFICIENT : SufficientTexts,
     has_rec : {TRUE}, RECOMMENDATION : RecommendationTexts]
    \cup
    [raises : {FALSE}, has_suff : {FALSE}, SUFFICIENT : {EmptyText},
     has_rec : {FALSE}, RECOMMENDATION : {EmptyText}]

\* analysis.get('SUFFICIENT', 'No').lower() == 'yes'
ParseSufficient(resp) ==
    Lower(IF resp.has_suff THEN resp.SUFFICIENT ELSE <<"N","o">>) = YesText

\* analysis.get('RECOMMENDATION', 'need_more_research')
ParseRecommendation(resp) ==
    IF resp.has_rec THEN resp.RECOMMENDATION ELSE need_more_research

\* AnalysisAgent.analyze
Analyze(query, research_results, resp) ==
    IF resp.raises
    THEN [present |-> TRUE, sufficient |-> FALSE,
          recommendation |-> need_more_research,
          full_analysis |-> "", success |-> FALSE]
    ELSE [present |-> TRUE, sufficient |-> ParseSufficient(resp),
          recommendation |-> ParseRecommendation(resp),
          full_analysis |-> "analysis text", success |-> TRUE]

\* Whether an exception raised inside analyze() leaves the method: the body
\* is inside `try: ... except Exception`.
AnalyzePropagates(resp) == FALSE

\* Whether an exception raised inside write() leaves the method: the body is
\* inside `try: ... except Exception`.
WritePropagates(outcome) == FALSE

\* What the LLM can do on one writing call.
WriteOutcomes == {"raise", "answer", "empty"}

\* WriterAgent.write
Write(query, research_results, analysis, outcome) ==
    IF outcome = "raise"
    THEN [query |-> query, summary |-> "Writing failed: e", success |-> FALSE]
    ELSE [query |-> query,
          summary |-> IF outcome = "answer" THEN "summary text" ELSE "",
          success |-> TRUE]

\* The empty dict {} that analysis_results starts as.
EmptyDict ==
    [present |-> FALSE, sufficient |-> FALSE, recommendation |-> EmptyText,
     full_analysis |-> "", success |-> FALSE]

\* analysis.get("sufficient", False)
GetSufficient(a) == IF a.present THEN a.sufficient ELSE FALSE
\* analysis.get("recommendation", "")
GetRecommendation(a) == IF a.present THEN a.recommendation ELSE EmptyText
\* analysis_results.get("full_analysis", "")
GetFullAnalysis(a) == IF a.present THEN a.full_analysis ELSE ""

----------------------------------------------------------------------------
(* History of collaborator calls (observation only, never read by the     *)
(* engines)                                                                *)

RCall(prefer_web, rr) ==
    [c |-> "R", web |-> prefer_web, ok |-> rr.success, sufficient |-> FALSE,
     rec |-> EmptyText, out |-> rr.result, in1 |-> "", in2 |-> ""]
ECall(research_results, ar) ==
    [c |-> "E", web |-> FALSE, ok |-> ar.success, sufficient |-> ar.sufficient,
     rec |-> ar.recommendation, out |-> ar.full_analysis,
     in1 |-> research_results, in2 |-> ""]
SCall(research_results, analysis, wr) ==
    [c |-> "S", web |-> FALSE, ok |-> wr.success, sufficient |-> FALSE,
     rec |-> EmptyText, out |-> wr.summary,
     in1 |-> research_results, in2 |-> analysis]

\* The history is kept up to this length; no run of either engine makes more
\* than 2 * budget + 1 calls.
MaxCalls == 2 * (IF MaxBudget > DefaultMaxIterations
                 THEN MaxBudget ELSE DefaultMaxIterations) + 2

Record(call) == IF Len(calls) < MaxCalls THEN Append(calls, call) ELSE calls

----------------------------------------------------------------------------
(* SupervisedRAGWorkflow (src/supervised_workflow.py) *)

\* WorkflowState(query=query): the field defaults of the class
WorkflowState(query) ==
    [query |-> query, research_results |-> "", analysis_results |-> EmptyDict,
     final_output |-> "", iteration_count |-> 0,
     max_iterations |-> DefaultMaxIterations,
     use_web_search |-> FALSE, satisfied |-> FALSE]

\* _research_node with `state.iteration_count += 1` left out
ResearchNode_NoIncrement(st, rr) ==
    [st EXCEPT !.research_results = rr.result]

\* _research_node, given what research() returned
ResearchNode(st, rr) ==
    [st EXCEPT !.research_results = rr.result,
               !.iteration_count = @ + 1]

\* _analysis_node that also clears the research results it has consumed
AnalysisNode_ClearsResearch(st, ar) ==
    [st EXCEPT !.analysis_results = ar, !.research_results = ""]

\* _analysis_node, given what analyze() returned
AnalysisNode(st, ar) == [st EXCEPT !.analysis_results = ar]

\* _writer_node without the assignment to final_output
WriterNode_DropsSummary(st, wr) == st

\* _writer_node, given what write() returned
WriterNode(st, wr) == [st EXCEPT !.final_output = wr.summary]

\* _supervisor_node assigning the flag from the test instead of only setting it
SupervisorNode_Reassign(st) ==
    IF GetSufficient(st.analysis_results) THEN st
    ELSE IF st.iteration_count >= st.max_iterations THEN st
    ELSE [st EXCEPT !.use_web_search =
             Contains(WebSearchSpaced,
                      Lower(GetRecommendation(st.analysis_results)))]

\* _supervisor_node testing the recommendation before the budget
SupervisorNode_EscalateBeforeBudget(st) ==
    IF GetSufficient(st.analysis_results) THEN st
    ELSE IF /\ ~st.use_web_search
            /\ Contains(WebSearchSpaced,
                        Lower(GetRecommendation(st.analysis_results)))
         THEN [st EXCEPT !.use_web_search = TRUE]
    ELSE st

\* _supervisor_node
SupervisorNode(st) ==
    IF GetSufficient(st.analysis_results) THEN st
    ELSE IF st.iteration_count >= st.max_iterations THEN st
    ELSE IF /\ ~st.use_web_search
            /\ Contains(WebSearchSpaced,
                        Lower(GetRecommendation(st.analysis_results)))
         THEN [st EXCEPT !.use_web_search = TRUE]
    ELSE st

\* _should_continue comparing with > instead of >=
should_continue_OffByOne(st) ==
    IF GetSufficient(st.analysis_results) THEN "write"
    ELSE IF st.iteration_count > st.max_iterations THEN "write"
    ELSE "continue"

\* _should_continue without the sufficiency test
should_continue_IgnoreSufficient(st) ==
    IF st.iteration_count >= st.max_iterations THEN "write"
    ELSE "continue"

\* _should_continue taking the "end" edge when the budget is used up
should_continue_EndAtBudget(st) ==
    IF GetSufficient(st.analysis_results) THEN "write"
    ELSE IF st.iteration_count >= st.max_iterations THEN "end"
    ELSE "continue"

\* _should_continue taking the "end" edge after a failed evaluation
should_continue_EndOnFailure(st) ==
    IF GetSufficient(st.analysis_results) THEN "write"
    ELSE IF st.analysis_results.present /\ ~st.analysis_results.success
    THEN "end"
    ELSE IF st.iteration_count >= st.max_iterations THEN "write"
    ELSE "continue"

\* _should_continue
should_continue(st) ==
    IF GetSufficient(st.analysis_results) THEN "write"
    ELSE IF st.iteration_count >= st.max_iterations THEN "write"
    ELSE "continue"

\* add_conditional_edges with "continue" mapped to the analysis node
ConditionalEdge_ContinueToAnalysis(answer) ==
    CASE answer = "continue" -> "analysis"
      [] answer = "write" -> "writer"
      [] answer = "end" -> "END"

\* The mapping of add_conditional_edges: the router's answer to the next node
ConditionalEdge(answer) ==
    CASE answer = "continue" -> "research"
      [] answer = "write" -> "writer"
      [] answer = "end" -> "END"

\* The dict run() returns from the final state
RunResult(st) ==
    [query |-> st.query, final_output |-> st.final_output,
     research_results |-> st.research_results,
     analysis_results |-> st.analysis_results,
     iterations |-> st.iteration_count,
     used_web_search |-> st.use_web_search]

\* The values of the variables an engine does not use
NoState == WorkflowState("")
NoResult == [none |-> TRUE]

\* run(query): create the state and enter the graph at its entry point
W_Run ==
    /\ pc = "idle"
    /\ \E q \in Queries : state' = WorkflowState(q)
    /\ engine' = "workflow"
    /\ pc' = "research"
    /\ UNCHANGED <<loc, result, calls, runs, memory, facade>>

\* node "research", then the edge research -> analysis
W_Research ==
    /\ engine = "workflow" /\ pc = "research"
    /\ \E o \in ResearchOutcomes :
         LET rr == Research(state.query, state.use_web_search, o) IN
           IF ResearchPropagates(o)
           THEN pc' = "raised" /\ UNCHANGED <<state, calls>>
           ELSE /\ state' = ResearchNode(state, rr)
                /\ calls' = Record(RCall(state.use_web_search, rr))
                /\ pc' = "analysis"
    /\ UNCHANGED <<engine, loc, result, runs, memory, facade>>

\* node "analysis", then the edge analysis -> supervisor
W_Analysis ==
    /\ engine = "workflow" /\ pc = "analysis"
    /\ \E resp \in AnalysisResponses :
         LET ar == Analyze(state.query, state.research_results, resp) IN
           IF AnalyzePropagates(resp)
           THEN pc' = "raised" /\ UNCHANGED <<state, calls>>
           ELSE /\ state' = AnalysisNode(state, ar)
                /\ calls' = Record(ECall(state.research_results, ar))
                /\ pc' = "supervisor"
    /\ UNCHANGED <<engine, loc, result, runs, memory, facade>>

\* node "supervisor", then the conditional edge routed by _should_continue
W_Supervisor ==
    /\ engine = "workflow" /\ pc = "supervisor"
    /\ state' = SupervisorNode(state)
    /\ pc' = ConditionalEdge(should_continue(state'))
    /\ UNCHANGED <<engine, loc, result, calls, runs, memory, facade>>

\* node "writer", then the edge writer -> END
W_Writer ==
    /\ engine = "workflow" /\ pc = "writer"
    /\ \E o \in WriteOutcomes :
         LET wr == Write(state.query, state.research_results,
                         GetFullAnalysis(state.analysis_results), o) IN
           IF WritePropagates(o)
           THEN pc' = "raised" /\ UNCHANGED <<state, calls>>
           ELSE /\ state' = WriterNode(state, wr)
                /\ calls' = Record(SCall(state.research_results,
                                         GetFullAnalysis(state.analysis_results),
                                         wr))
                /\ pc' = "END"
    /\ UNCHANGED <<engine, loc, result, runs, memory, facade>>

\* invoke() has returned the final state: run() builds its result
W_Return ==
    /\ engine = "workflow" /\ pc = "END"
    /\ result' = RunResult(state)
    /\ pc' = "done"
    /\ UNCHANGED <<engine, state, loc, calls, runs, memory, facade>>

----------------------------------------------------------------------------
(* MultiAgentOrchestrator.process_query (src/agents.py) *)

\* One workflow_log line: its kind, and the values formatted into it.
LogLine(kind, n, text, rec) == [kind |-> kind, n |-> n, text |-> text, rec |-> rec]
Line(kind) == LogLine(kind, 0, "", EmptyText)

\* The value standing for a local that is not bound yet
Unbound == [query |-> "", result |-> "", success |-> FALSE, error |-> ""]

\* The locals at the top of process_query; research_result and
\* analysis_result are unbound until first assigned ('... in locals()').
Locals(query, max_iterations) ==
    [query |-> query, max_iterations |-> max_iterations,
     workflow_log |-> <<>>, iteration |-> 0, prefer_web |-> FALSE,
     has_research |-> FALSE, research_result |-> Unbound,
     has_analysis |-> FALSE, analysis_result |-> EmptyDict]

\* workflow_log assigned the new lines instead of extended by them
Logged_Overwrite(l, lines) == [l EXCEPT !.workflow_log = lines]

\* workflow_log.append(...) for each of the lines
Logged(l, lines) == [l EXCEPT !.workflow_log = @ \o lines]

\* The research phase with `iteration += 1` done only after a successful call
ResearchPhase_IncrementOnSuccess(l, rr) ==
    LET l1 == [l EXCEPT !.iteration = IF rr.success THEN @ + 1 ELSE @]
        l2 == Logged(l1, <<LogLine("iteration", l1.iteration, "", EmptyText),
                           Line("starting research")>>)
        l3 == [l2 EXCEPT !.research_result = rr, !.has_research = TRUE]
    IN IF ~rr.success
       THEN [loc |-> Logged(l3, <<LogLine("research failed", 0, rr.error, EmptyText)>>),
             pc |-> "o_write_final"]
       ELSE [loc |-> Logged(l3, <<Line("research completed")>>),
             pc |-> "o_analysis"]

\* Top of the loop body up to the research call's outcome (lines 242-253):
\* the locals after it, and where control goes.
ResearchPhase(l, rr) ==
    LET l1 == [l EXCEPT !.iteration = @ + 1]
        l2 == Logged(l1, <<LogLine("iteration", l1.iteration, "", EmptyText),
                           Line("starting research")>>)
        l3 == [l2 EXCEPT !.research_result = rr, !.has_research = TRUE]
    IN IF ~rr.success
       THEN [loc |-> Logged(l3, <<LogLine("research failed", 0, rr.error, EmptyText)>>),
             pc |-> "o_write_final"]
       ELSE [loc |-> Logged(l3, <<Line("research completed")>>),
             pc |-> "o_analysis"]

\* The analysis phase (lines 255-264)
AnalysisPhase(l, ar) ==
    LET l1 == Logged(l, <<Line("starting analysis")>>)
        l2 == [l1 EXCEPT !.analysis_result = ar, !.has_analysis = TRUE]
    IN IF ~ar.success
       THEN [loc |-> Logged(l2, <<Line("analysis failed")>>),
             pc |-> "o_write_final"]
       ELSE [loc |-> Logged(l2,
                 <<LogLine("analysis completed", 0,
                           IF ar.sufficient THEN "True" ELSE "False", EmptyText),
                   LogLine("recommendation", 0, "", ar.recommendation)>>),
             pc |-> "o_analysis_done"]

\* The checks of lines 266-298 with `continue` in the last branch
Decide_ContinueOnUnclear(l) ==
    LET recommendation == Lower(l.analysis_result.recommendation) IN
    IF l.analysis_result.sufficient
    THEN [loc |-> Logged(l, <<Line("sufficient")>>), pc |-> "o_write_sufficient"]
    ELSE IF Contains(WebSearchToken, recommendation) /\ ~l.prefer_web
    THEN [loc |-> [Logged(l, <<Line("switching to web search")>>)
                     EXCEPT !.prefer_web = TRUE],
          pc |-> "o_loop"]
    ELSE IF Contains(MoreResearchToken, recommendation)
    THEN [loc |-> Logged(l, <<Line("need more research")>>), pc |-> "o_loop"]
    ELSE [loc |-> Logged(l, <<Line("no clear next steps")>>),
          pc |-> "o_loop"]

\* The sufficiency check and the recommendation check (lines 266-298)
Decide(l) ==
    LET recommendation == Lower(l.analysis_result.recommendation) IN
    IF l.analysis_result.sufficient
    THEN [loc |-> Logged(l, <<Line("sufficient")>>), pc |-> "o_write_sufficient"]
    ELSE IF Contains(WebSearchToken, recommendation) /\ ~l.prefer_web
    THEN [loc |-> [Logged(l, <<Line("switching to web search")>>)
                     EXCEPT !.prefer_web = TRUE],
          pc |-> "o_loop"]
    ELSE IF Contains(MoreResearchToken, recommendation)
    THEN [loc |-> Logged(l, <<Line("need more research")>>), pc |-> "o_loop"]
    ELSE [loc |-> Logged(l, <<Line("no clear next steps")>>),
          pc |-> "o_write_final"]

\* The dict returned from inside the loop (lines 277-285)
SufficientResult(l, wr) ==
    [query |-> l.query, final_answer |-> wr.summary,
     research_results |-> <<l.research_result>>,
     analysis |-> l.analysis_result, iterations |-> l.iteration,
     success |-> wr.success, workflow_log |-> l.workflow_log]

\* final_research and final_analysis (lines 305-306)
FinalResearch(l) ==
    IF l.has_research THEN l.research_result.result
    ELSE "No research results available"
FinalAnalysis(l) ==
    IF l.has_analysis THEN l.analysis_result.full_analysis
    ELSE "No analysis available"

\* The dict returned after the loop (lines 310-319)
FinalResult(l, wr) ==
    [query |-> l.query, final_answer |-> wr.summary,
     research_results |-> IF l.has_research THEN <<l.research_result>> ELSE <<>>,
     analysis |-> IF l.has_analysis THEN l.analysis_result ELSE EmptyDict,
     iterations |-> l.iteration, success |-> FALSE,
     note |-> "Maximum iterations reached or insufficient information found",
     workflow_log |-> l.workflow_log]

NoLocals == Locals("", 0)

\* process_query(query, max_iterations): lines 235-239
O_Run ==
    /\ pc = "idle"
    /\ \E q \in Queries, n \in 0..MaxBudget : loc' = Locals(q, n)
    /\ engine' = "orchestrator"
    /\ pc' = "o_loop"
    /\ UNCHANGED <<state, result, calls, runs, memory, facade>>

\* `while iteration < max_iterations` holds: the research phase
O_Research ==
    /\ engine = "orchestrator" /\ pc = "o_loop"
    /\ loc.iteration < loc.max_iterations
    /\ \E o \in ResearchOutcomes :
         LET rr == Research(loc.query, loc.prefer_web, o)
             step == ResearchPhase(loc, rr) IN
           IF ResearchPropagates(o)
           THEN pc' = "raised" /\ UNCHANGED <<loc, calls>>
           ELSE /\ loc' = step.loc
                /\ pc' = step.pc
                /\ calls' = Record(RCall(loc.prefer_web, rr))
    /\ UNCHANGED <<engine, state, result, runs, memory, facade>>

\* `while iteration < max_iterations` fails: the loop is left
O_LoopExit ==
    /\ engine = "orchestrator" /\ pc = "o_loop"
    /\ ~(loc.iteration < loc.max_iterations)
    /\ pc' = "o_write_final"
    /\ UNCHANGED <<engine, state, loc, result, calls, runs, memory, facade>>

\* the analysis phase
O_Analysis ==
    /\ engine = "orchestrator" /\ pc = "o_analysis"
    /\ \E resp \in AnalysisResponses :
         LET ar == Analyze(loc.query, loc.research_result.result, resp)
             step == AnalysisPhase(loc, ar) IN
           IF AnalyzePropagates(resp)
           THEN pc' = "raised" /\ UNCHANGED <<loc, calls>>
           ELSE /\ loc' = step.loc
                /\ pc' = step.pc
                /\ calls' = Record(ECall(loc.research_result.result, ar))
    /\ UNCHANGED <<engine, state, result, runs, memory, facade>>

\* the checks after a successful analysis
O_Decide ==
    /\ engine = "orchestrator" /\ pc = "o_analysis_done"
    /\ loc' = Decide(loc).loc
    /\ pc' = Decide(loc).pc
    /\ UNCHANGED <<engine, state, result, calls, runs, memory, facade>>

\* the writing phase inside the loop, and its return
O_WriteSufficient ==
    /\ engine = "orchestrator" /\ pc = "o_write_sufficient"
    /\ \E o \in WriteOutcomes :
         LET wr == Write(loc.query, loc.research_result.result,
                         loc.analysis_result.full_analysis, o) IN
           IF WritePropagates(o)
           THEN pc' = "raised" /\ UNCHANGED <<result, calls>>
           ELSE /\ result' = SufficientResult(loc, wr)
                /\ calls' = Record(SCall(loc.research_result.result,
                                         loc.analysis_result.full_analysis, wr))
                /\ pc' = "done"
    /\ UNCHANGED <<engine, state, loc, runs, memory, facade>>

\* the writing after the loop, and its return (lines 300-319)
O_WriteFinal ==
    /\ engine = "orchestrator" /\ pc = "o_write_final"
    /\ \E o \in WriteOutcomes :
         LET l == Logged(loc, <<Line("maximum iterations reached"),
                                Line("proceeding to write")>>)
             wr == Write(l.query, FinalResearch(l), FinalAnalysis(l), o) IN
           IF WritePropagates(o)
           THEN pc' = "raised" /\ UNCHANGED <<loc, result, calls>>
           ELSE /\ loc' = l
                /\ result' = FinalResult(l, wr)
                /\ calls' = Record(SCall(FinalResearch(l), FinalAnalysis(l), wr))
                /\ pc' = "done"
    /\ UNCHANGED <<engine, state, runs, memory, facade>>

----------------------------------------------------------------------------
(* Several run() calls on one SupervisedRAGWorkflow instance: app.py keeps  *)
(* one module-level system, so the requests of all callers share            *)
(* self.app and self.memory, while every invoke() works on its own state.   *)

\* The callers; the thread ids a caller's config names, the ids uuid4() can
\* produce, and the value standing for "no thread id"
Callers == {1, 2}
SuppliedIds == {"t1"}
GeneratedIds == {"u1", "u2"}
ThreadIds == SuppliedIds \cup GeneratedIds
NoThreadId == "none"

\* What run() finds in config["configurable"] ({} also for config=None and
\* for a config without "configurable"): whether it holds thread_id, and
\* whether it holds checkpoint_ns or checkpoint_id
Config(has_thread, thread_id, has_other) ==
    [has_thread |-> has_thread, thread_id |-> thread_id,
     has_other |-> has_other]
Configs ==
    {Config(FALSE, NoThreadId, FALSE), Config(FALSE, NoThreadId, TRUE)}
    \cup {Config(TRUE, t, FALSE) : t \in SuppliedIds}

\* The inputs of these runs: one query; a retrieval that answers; an
\* insufficient verdict that asks to go on, one that makes the supervisor
\* escalate, and a sufficient verdict; a writer that answers.
SessionQueries == {"q"}
SessionResearchOutcomes == {"answer"}
SessionAnalysisResponses ==
    {resp \in AnalysisResponses :
        \/ /\ resp.has_suff /\ resp.SUFFICIENT = <<"N","o">>
           /\ resp.RECOMMENDATION \in {need_more_research, try_a_web_search}
        \/ /\ resp.has_suff /\ resp.SUFFICIENT = <<"Y","e","s">>
           /\ resp.RECOMMENDATION = proceed_to_writing}
SessionWriteOutcomes == {"answer"}

\* What the checkpointer holds for a thread: the channel values after the
\* last completed step and the node to run next ("END" when none is left)
Checkpoint(values, next) == [exists |-> TRUE, values |-> values, next |-> next]
NoCheckpoint == [exists |-> FALSE, values |-> NoState, next |-> "END"]

\* The key under which MemorySaver files a checkpoint, with the thread id
\* ignored
CheckpointKey_Shared(thread_id) == "t1"

\* The key under which MemorySaver files a checkpoint:
\* config["configurable"]["thread_id"]
CheckpointKey(thread_id) == thread_id

\* How invoke() turns the WorkflowState(query=query) it is given into writes
\* to the channels of the thread: every field of the object, or only the
\* fields that were set or do not hold their class default (the library
\* versions differ). Only query is set; the {} of analysis_results is a
\* fresh copy of the default.
InputModes == {"all_fields", "set_fields"}

\* The state the graph starts from: run() always passes a new
\* WorkflowState(query=query) as input, and invoke() with an input starts at
\* the entry point with the input written over what the thread holds.
StartState(query, cp, mode) ==
    IF ~cp.exists \/ mode = "all_fields" THEN WorkflowState(query)
    ELSE [cp.values EXCEPT !.query = query, !.analysis_results = EmptyDict]

\* The node invoke() starts with when it is given an input: the entry point
EntryPoint == "research"

\* One run() call: its position, its thread, the state of its invoke(), the
\* dict it returned, the number of collaborator calls it made; and, for
\* observation only, the config the caller passed, the checkpoint its thread
\* held when it started and the state the same answers produce from a new
\* WorkflowState.
Run(pc_, thread_id, st, res, ncalls, prior, alone, config) ==
    [pc |-> pc_, thread |-> thread_id, state |-> st, result |-> res,
     ncalls |-> ncalls, prior |-> prior, alone |-> alone, config |-> config]
NoRun ==
    Run("idle", NoThreadId, NoState, RunResult(NoState), 0, NoCheckpoint,
        NoState, Config(FALSE, NoThreadId, FALSE))

\* str(uuid.uuid4()): an id no run has been given yet
Uuid4 == CHOOSE u \in GeneratedIds : ~memory[u].exists

\* Lines 156-161: thread_id is generated when the config holds none of
\* thread_id, checkpoint_ns, checkpoint_id
EnsureThreadId(config, uuid) ==
    IF ~(config.has_thread \/ config.has_other)
    THEN [config EXCEPT !.has_thread = TRUE, !.thread_id = uuid]
    ELSE config

\* The run after one node: the new state, the next node
Stepped(r, st, next, called, alone) ==
    [r EXCEPT !.pc = next, !.state = st, !.ncalls = @ + called,
              !.alone = alone]

\* The checkpoint written after a step of a run
Saved(r) == [memory EXCEPT ![CheckpointKey(r.thread)] = Checkpoint(r.state, r.pc)]

\* run(query, config): lines 153-163 up to the start of the graph
S_Run(c) ==
    /\ runs[c].pc = "idle"
    /\ \E q \in SessionQueries, config \in Configs, mode \in InputModes :
         LET cfg == EnsureThreadId(config, Uuid4) IN
           IF cfg.has_thread
           THEN LET t == cfg.thread_id
                    cp == memory[CheckpointKey(t)]
                    r == Run(EntryPoint, t, StartState(q, cp, mode),
                             RunResult(NoState), 0, cp, WorkflowState(q),
                             config) IN
                  /\ runs' = [runs EXCEPT ![c] = r]
                  /\ memory' = Saved(r)
           ELSE \* the checkpointer finds no thread_id: invoke() raises
                /\ runs' = [runs EXCEPT ![c] =
                              Run("raised", NoThreadId, WorkflowState(q),
                                  RunResult(NoState), 0, NoCheckpoint,
                                  WorkflowState(q), config)]
                /\ UNCHANGED memory
    /\ UNCHANGED <<pc, engine, state, loc, result, calls, facade>>

\* node "research" of the run of caller c
S_Research(c) ==
    /\ runs[c].pc = "research"
    /\ \E o \in SessionResearchOutcomes :
         LET r == runs[c]
             rr == Research(r.state.query, r.state.use_web_search, o)
             ra == Research(r.alone.query, r.alone.use_web_search, o)
             r2 == Stepped(r, ResearchNode(r.state, rr), "analysis", 1,
                           ResearchNode(r.alone, ra)) IN
           /\ runs' = [runs EXCEPT ![c] = r2]
           /\ memory' = Saved(r2)
    /\ UNCHANGED <<pc, engine, state, loc, result, calls, facade>>

\* node "analysis" of the run of caller c
S_Analysis(c) ==
    /\ runs[c].pc = "analysis"
    /\ \E resp \in SessionAnalysisResponses :
         LET r == runs[c]
             ar == Analyze(r.state.query, r.state.research_results, resp)
             aa == Analyze(r.alone.query, r.alone.research_results, resp)
             r2 == Stepped(r, AnalysisNode(r.state, ar), "supervisor", 1,
                           AnalysisNode(r.alone, aa)) IN
           /\ runs' = [runs EXCEPT ![c] = r2]
           /\ memory' = Saved(r2)
    /\ UNCHANGED <<pc, engine, state, loc, result, calls, facade>>

\* node "supervisor" of the run of caller c, and the conditional edge
S_Supervisor(c) ==
    /\ runs[c].pc = "supervisor"
    /\ LET r == runs[c]
           st == SupervisorNode(r.state)
           r2 == Stepped(r, st, ConditionalEdge(should_continue(st)), 0,
                         SupervisorNode(r.alone)) IN
         /\ runs' = [runs EXCEPT ![c] = r2]
         /\ memory' = Saved(r2)
    /\ UNCHANGED <<pc, engine, state, loc, result, calls, facade>>

\* node "writer" of the run of caller c
S_Writer(c) ==
    /\ runs[c].pc = "writer"
    /\ \E o \in SessionWriteOutcomes :
         LET r == runs[c]
             wr == Write(r.state.query, r.state.research_results,
                         GetFullAnalysis(r.state.analysis_results), o)
             wa == Write(r.alone.query, r.alone.research_results,
                         GetFullAnalysis(r.alone.analysis_results), o)
             r2 == Stepped(r, WriterNode(r.state, wr), "END", 1,
                           WriterNode(r.alone, wa)) IN
           /\ runs' = [runs EXCEPT ![c] = r2]
           /\ memory' = Saved(r2)
    /\ UNCHANGED <<pc, engine, state, loc, result, calls, facade>>

\* invoke() has returned: run() builds its result (lines 167-174)
S_Return(c) ==
    /\ runs[c].pc = "END"
    /\ runs' = [runs EXCEPT ![c].pc = "done",
                            ![c].result = RunResult(runs[c].state)]
    /\ UNCHANGED <<pc, engine, state, loc, result, calls, memory, facade>>

\* The run of caller c is interrupted between two nodes (the request is
\* cancelled, the caller's thread is stopped): invoke() does not return, the
\* checkpoint of the last completed step stays in self.memory.
S_Interrupt(c) ==
    /\ runs[c].pc \in {"research", "analysis", "supervisor", "writer"}
    /\ runs' = [runs EXCEPT ![c].pc = "interrupted"]
    /\ UNCHANGED <<pc, engine, state, loc, result, calls, memory, facade>>

----------------------------------------------------------------------------
(* AgenticRAGSystem (src/main.py): the vector store and the tools of the    *)
(* research agent. Vector stores are objects: a variable or a tool holds a  *)
(* reference to a store, and merge_from changes the store it is called on.  *)

\* The documents a directory can hold
Docs == {"d1", "d2", "d3", "d4"}

\* A reference to no object (None)
None == 0

\* The object after __init__ lines 20-34, before _initialize_system; stores
\* holds the contents of the vector store objects created so far. For
\* observation only: added, the documents add_documents has loaded; and, as
\* of the last query, added_before, the documents added before it, and
\* seen, the documents its retrieval tool could search.
NoSystem ==
    [initialized |-> FALSE, stores |-> <<>>, vector_store |-> None,
     rag_tool |-> None, has_workflow |-> FALSE, added |-> {},
     queried |-> FALSE, added_before |-> {}, seen |-> {}]

\* document_loader.create_vector_store(documents): a new store object
CreateVectorStore(sys, documents) ==
    [stores |-> Append(sys.stores, documents), ref |-> Len(sys.stores) + 1]

\* _initialize_system, given the documents loaded from documents_directory:
\* the RAG tool is built over the store only if there is one
InitializeSystem(sys, documents) ==
    LET made == CreateVectorStore(sys, documents)
        s1 == IF documents # {}
              THEN [sys EXCEPT !.stores = made.stores,
                               !.vector_store = made.ref]
              ELSE sys
    IN [s1 EXCEPT !.rag_tool = IF s1.vector_store # None
                               THEN s1.vector_store ELSE None,
                  !.has_workflow = TRUE, !.initialized = TRUE]

\* add_documents, given the documents loaded from the directory: merge into
\* the existing store object, or create the first store; the tools and the
\* workflow are left as _initialize_system built them
AddDocuments(sys, new_documents) ==
    IF new_documents = {} THEN sys
    ELSE IF sys.vector_store # None
    THEN [sys EXCEPT !.stores[sys.vector_store] = @ \cup new_documents,
                     !.added = @ \cup new_documents]
    ELSE LET made == CreateVectorStore(sys, new_documents) IN
         [sys EXCEPT !.stores = made.stores, !.vector_store = made.ref,
                     !.added = @ \cup new_documents]

\* The documents the research agent can search through its rag_retrieval
\* tool: those of the store the tool was built over, none without the tool
Retrievable(sys) ==
    IF sys.rag_tool = None THEN {} ELSE sys.stores[sys.rag_tool]

\* AgenticRAGSystem(documents_directory, ...)
F_Init ==
    /\ ~facade.initialized
    /\ \E documents \in SUBSET Docs :
         facade' = InitializeSystem(facade, documents)
    /\ UNCHANGED <<pc, engine, state, loc, result, calls, runs, memory>>

\* add_documents(new_documents_directory)
F_AddDocuments ==
    /\ facade.initialized
    /\ \E new_documents \in SUBSET Docs :
         facade' = AddDocuments(facade, new_documents)
    /\ UNCHANGED <<pc, engine, state, loc, result, calls, runs, memory>>

\* query(question): the workflow runs with the research agent built by
\* _initialize_system; what its retrieval tool can search is recorded
F_Query ==
    /\ facade.initialized /\ facade.has_workflow
    /\ facade' = [facade EXCEPT !.queried = TRUE,
                                !.added_before = facade.added,
                                !.seen = Retrievable(facade)]
    /\ UNCHANGED <<pc, engine, state, loc, result, calls, runs, memory>>

----------------------------------------------------------------------------
(* The specifications *)

Init ==
    /\ pc = "idle"
    /\ engine = "none"
    /\ state = NoState
    /\ loc = NoLocals
    /\ result = NoResult
    /\ calls = <<>>
    /\ runs = [c \in Callers |-> NoRun]
    /\ memory = [t \in ThreadIds |-> NoCheckpoint]
    /\ facade = NoSystem

Next ==
    \/ W_Run
    \/ W_Research
    \/ W_Analysis
    \/ W_Supervisor
    \/ W_Writer
    \/ W_Return
    \/ O_Run
    \/ O_Research
    \/ O_LoopExit
    \/ O_Analysis
    \/ O_Decide
    \/ O_WriteSufficient
    \/ O_WriteFinal

Spec == Init /\ [][Next]_vars

\* A run is one sequential Python call: it takes its next step as long as it
\* has one (every collaborator call returns).
FairSpec == Spec /\ WF_vars(Next)

\* The callers of one workflow instance, each calling run() once, in any
\* interleaving of their steps
SessionNext ==
    \E c \in Callers :
      \/ S_Run(c)
      \/ S_Research(c)
      \/ S_Analysis(c)
      \/ S_Supervisor(c)
      \/ S_Writer(c)
      \/ S_Return(c)
      \/ S_Interrupt(c)

SessionSpec == Init /\ [][SessionNext]_vars

\* Any sequence of add_documents and query calls on one system
FacadeNext ==
    \/ F_Init
    \/ F_AddDocuments
    \/ F_Query

FacadeSpec == Init /\ [][FacadeNext]_vars

----------------------------------------------------------------------------
(* What the claims speak about, for either engine *)

\* The iteration budget N of the run
Budget ==
    IF engine = "workflow" THEN state.max_iterations ELSE loc.max_iterations

\* iteration_count / iteration
IterationCount ==
    IF engine = "workflow" THEN state.iteration_count ELSE loc.iteration

\* use_web_search / prefer_web
Escalated ==
    IF engine = "workflow" THEN state.use_web_search ELSE loc.prefer_web

\* Positions of the calls to collaborator k in the history
CallsOf(k) == {i \in 1..Len(calls) : calls[i].c = k}
Count(k) == Cardinality(CallsOf(k))

\* The web flags of the Retriever calls, in order
RECURSIVE WebFlags(_)
WebFlags(h) ==
    IF h = <<>> THEN <<>>
    ELSE IF Head(h).c = "R" THEN <<Head(h).web>> \o WebFlags(Tail(h))
    ELSE WebFlags(Tail(h))

Done == pc = "done"

\* The answer text of the returned dict
FinalText ==
    IF engine = "workflow" THEN result.final_output ELSE result.final_answer

----------------------------------------------------------------------------
(* The claims *)

\* C1: a run calls the Retriever at most N times (N its budget), every
\* Retriever call comes before the Synthesizer call, and once
\* iteration_count >= N no retrieval step can be taken any more.
C1_RetrieverWithinBudget ==
    engine # "none" =>
      /\ Count("R") <= Budget
      /\ \A i \in CallsOf("R"), j \in CallsOf("S") : i < j
      /\ IterationCount >= Budget => ~ENABLED (W_Research \/ O_Research)

\* A run that used its whole budget of at least two retrievals and then
\* synthesized.
C1_Witness ==
    /\ Done /\ Budget >= 2 /\ Count("R") = Budget
    /\ calls[Len(calls)].c = "S"

\* C2: every run reaches its terminal state (the writer has been called and
\* the result returned) after finitely many phase steps: it makes at most
\* N Retriever, N Evaluator and one Synthesizer call, always has a next
\* step until it is done, and is eventually done.
C2_RunTerminates ==
    /\ [](/\ Count("R") <= Budget /\ Count("E") <= Budget /\ Count("S") <= 1
          /\ ~Done => ENABLED <<Next>>_vars)
    /\ <>(Done /\ Count("S") = 1 /\ "query" \in DOMAIN result)

\* A finished workflow run in which every Retriever and every Evaluator call
\* failed.
C2_Witness ==
    /\ Done /\ engine = "workflow" /\ Count("R") = Budget
    /\ \A i \in CallsOf("R") \cup CallsOf("E") : ~calls[i].ok

\* C3: after an Evaluator call that returned sufficient=true the only further
\* collaborator call is the Synthesizer's, which is the next and last call of
\* the run; a sufficient first verdict gives the history R, E, S.
C3_SufficientStopsRetrieval ==
    \A i \in CallsOf("E") :
      calls[i].sufficient =>
        /\ i < Len(calls) => (Len(calls) = i + 1 /\ calls[i + 1].c = "S")
        /\ i = Len(calls) =>
             /\ ~ENABLED (W_Research \/ O_Research \/ W_Analysis \/ O_Analysis)
             /\ ~Done
        /\ (\A j \in CallsOf("E") : i <= j) => (i = 2 /\ calls[1].c = "R")

\* A finished run whose first verdict was sufficient.
C3_Witness ==
    /\ Done /\ Len(calls) = 3
    /\ calls[1].c = "R" /\ calls[2].c = "E" /\ calls[2].sufficient
    /\ calls[3].c = "S"

\* C4: the escalation flag is false when a run starts and, once true, stays
\* true in every later step of the run.
C4_EscalationMonotonic ==
    [][/\ pc = "idle" => ~Escalated'
       /\ (pc # "idle" /\ Escalated) => Escalated']_vars

\* A finished run that escalated after its first evaluation and went on for
\* two more retrievals with the flag set.
C4_Witness ==
    /\ Done /\ Escalated
    /\ WebFlags(calls) = <<FALSE, TRUE, TRUE>>

\* C7: the Synthesizer is called at most once and its call is the last
\* collaborator call; a run that reached the writing step has not called it
\* before; a finished run has called it exactly once; final_output is empty
\* until that call and is what that call returned afterwards.
C7_SynthesizerOnce ==
    /\ Count("S") <= 1
    /\ \A i \in CallsOf("S") : i = Len(calls)
    /\ pc \in {"writer", "o_write_sufficient", "o_write_final"} => Count("S") = 0
    /\ Done => (Count("S") = 1 /\ FinalText = calls[Len(calls)].out)
    /\ engine = "workflow" =>
         state.final_output =
           (IF Count("S") = 0 THEN "" ELSE calls[Len(calls)].out)

\* A finished run whose budget ran out and whose writer answered.
C7_Witness ==
    /\ Done /\ Count("S") = 1 /\ Count("R") = 3
    /\ calls[Len(calls)].ok /\ FinalText = "summary text"


\* The verdicts of the Evaluator calls, in order
RECURSIVE Verdicts(_)
Verdicts(h) ==
    IF h = <<>> THEN <<>>
    ELSE IF Head(h).c = "E" THEN <<Head(h)>> \o Verdicts(Tail(h))
    ELSE Verdicts(Tail(h))

\* The escalation flag as the returned dict reports it; process_query's
\* dict has no such key, its flag is the local prefer_web.
ReportedEscalated ==
    IF engine = "workflow" THEN result.used_web_search ELSE loc.prefer_web

\* The iterations value of the returned dict
ReportedIterations == result.iterations

\* C5: with budget 3, every collaborator call succeeding, a first verdict
\* "insufficient, need_web_search" and every later verdict "insufficient,
\* need_more_research", the three retrievals use prefer_web = false, true,
\* true and the result reports the escalation.
C5_EscalationOnDocumentedToken ==
    LET v == Verdicts(calls) IN
    ( /\ Done /\ Budget = 3
      /\ \A i \in CallsOf("R") \cup CallsOf("E") : calls[i].ok
      /\ Len(v) >= 1
      /\ ~v[1].sufficient /\ v[1].rec = need_web_search
      /\ \A k \in 2..Len(v) : ~v[k].sufficient /\ v[k].rec = need_more_research )
    => ( /\ WebFlags(calls) = <<FALSE, TRUE, TRUE>>
         /\ ReportedEscalated )

\* C6: when every Evaluator call returns "insufficient, need_more_research",
\* the finished run has made exactly N Retriever calls and N Evaluator
\* calls, then the Synthesizer call, and has not escalated.
C6_BudgetForcedTermination ==
    ( /\ Done
      /\ \A i \in CallsOf("E") :
           ~calls[i].sufficient /\ calls[i].rec = need_more_research )
    => ( /\ Count("R") = Budget /\ Count("E") = Budget
         /\ calls[Len(calls)].c = "S"
         /\ ~ReportedEscalated )

\* C8: when a Retriever call before the last iteration failed and no verdict
\* was sufficient, the finished run reports iterations = N and its trace
\* holds an entry for the failed attempt.
C8_RetrieverFailureContinues ==
    ( /\ Done
      /\ \E i \in CallsOf("R") :
           ~calls[i].ok /\ Cardinality(CallsOf("R") \cap (1..i)) < Budget
      /\ \A i \in CallsOf("E") : ~calls[i].sufficient )
    => ( /\ ReportedIterations = Budget
         /\ "workflow_log" \in DOMAIN result
         /\ \E n \in 1..Len(result.workflow_log) :
              result.workflow_log[n].kind = "research failed" )

\* C9: after a failed Evaluator call the next collaborator call is another
\* retrieval with the same strategy if fewer than N retrievals have been
\* made (iteration_count < N), and the Synthesizer otherwise.
C9_EvaluatorFailureContinues ==
    \A i \in CallsOf("E") :
      (~calls[i].ok /\ i < Len(calls)) =>
        IF Cardinality(CallsOf("R") \cap (1..i)) < Budget
        THEN calls[i + 1].c = "R" /\ calls[i + 1].web = calls[i - 1].web
        ELSE calls[i + 1].c = "S"

\* The retrieval output and the evaluation text of the returned dict
\* ("" when it holds none)
ReportedResearch ==
    IF engine = "workflow" THEN result.research_results
    ELSE IF result.research_results = <<>> THEN ""
    ELSE result.research_results[1].result
ReportedAnalysis ==
    IF engine = "workflow" THEN result.analysis_results.full_analysis
    ELSE result.analysis.full_analysis

\* What the last call to collaborator k returned ("" when there was none)
LastOut(k) ==
    IF CallsOf(k) = {} THEN ""
    ELSE calls[CHOOSE i \in CallsOf(k) : \A j \in CallsOf(k) : j <= i].out

\* C10: when the Synthesizer call failed, the returned result has
\* success = false, a non-empty error description, and the last retrieval
\* output and evaluation; the Synthesizer was called once.
C10_SynthesizerFailureReported ==
    ( /\ Done /\ Count("S") >= 1
      /\ ~calls[Len(calls)].ok )
    => ( /\ "success" \in DOMAIN result
         /\ result.success = FALSE
         /\ FinalText # ""
         /\ ReportedResearch = LastOut("R")
         /\ ReportedAnalysis = LastOut("E")
         /\ Count("S") = 1 )

\* The query the run was started with
RunQuery == IF engine = "workflow" THEN state.query ELSE loc.query

\* C11: when a finished run used up its iteration budget without a sufficient
\* verdict, the returned dict has a success flag and it equals the success
\* flag of the Synthesizer call.
C11_ExhaustedSuccessIsSynthesizers ==
    ( /\ Done /\ IterationCount >= Budget
      /\ \A i \in CallsOf("E") : ~calls[i].sufficient )
    => ( /\ "success" \in DOMAIN result
         /\ result.success = calls[Len(calls)].ok )

\* C12: a run started with an empty query or with a budget below 1 invokes
\* no collaborator and returns no result.
C12_InvalidInputRejected ==
    ( /\ engine # "none"
      /\ RunQuery = "" \/ Budget < 1 )
    => ( /\ Len(calls) = 0
         /\ ~Done )

\* C13: a run with a non-empty query and a budget of at least 1 never ends
\* with an exception of a collaborator: an error inside a Retriever,
\* Evaluator or Synthesizer call comes back as a result value with
\* success = false; after a failed call the run still has a next step until
\* it is done, and a finished run has returned a result record.
C13_CollaboratorErrorsAbsorbed ==
    ( /\ engine # "none"
      /\ RunQuery # "" /\ Budget >= 1 )
    => ( /\ pc # "raised"
         /\ ~Research(RunQuery, Escalated, "raise").success
         /\ \A resp \in AnalysisResponses :
              resp.raises => ~Analyze(RunQuery, "", resp).success
         /\ ~Write(RunQuery, "", "", "raise").success
         /\ (Len(calls) > 0 /\ ~calls[Len(calls)].ok /\ ~Done)
              => ENABLED <<Next>>_vars
         /\ Done => ("query" \in DOMAIN result /\ result.query = RunQuery) )

\* A finished run with a valid query in which a Retriever call, an Evaluator
\* call and the Synthesizer call failed.
C13_Witness ==
    /\ Done /\ RunQuery # "" /\ Budget >= 1
    /\ \E i \in CallsOf("R") : ~calls[i].ok
    /\ \E i \in CallsOf("E") : ~calls[i].ok
    /\ \E i \in CallsOf("S") : ~calls[i].ok
    /\ "query" \in DOMAIN result

\* The phase steps of a run: retrieval, evaluation, decision, synthesis
RetrieverEnabled == ENABLED (W_Research \/ O_Research)
EvaluatorEnabled == ENABLED (W_Analysis \/ O_Analysis)
DecisionEnabled == ENABLED (W_Supervisor \/ O_Decide)
SynthesizerEnabled == ENABLED (W_Writer \/ O_WriteSufficient \/ O_WriteFinal)

\* 1 for a phase that can take a step, 0 otherwise
Active(b) == IF b THEN 1 ELSE 0

\* Number of calls to collaborator k among the first i calls
CountUpTo(k, i) == Cardinality(CallsOf(k) \cap (1..i))

\* C17: every Evaluator call comes immediately after the Retriever call of
\* the same iteration and is given that call's output; a decision is taken
\* only immediately after an Evaluator call; a Retriever call other than the
\* first comes immediately after an Evaluator call (and its decision); the
\* Synthesizer call is the last one; and at most one phase of the run can
\* take a step in any state.
C17_PhasesInOrder ==
    /\ \A i \in CallsOf("E") :
         /\ i > 1 /\ calls[i - 1].c = "R"
         /\ calls[i].in1 = calls[i - 1].out
         /\ CountUpTo("R", i) = CountUpTo("E", i)
    /\ DecisionEnabled =>
         /\ Len(calls) > 0 /\ calls[Len(calls)].c = "E"
         /\ Count("R") = Count("E")
    /\ \A i \in CallsOf("R") : i > 1 => calls[i - 1].c = "E"
    /\ \A i \in CallsOf("S") : i = Len(calls)
    /\ Active(RetrieverEnabled) + Active(EvaluatorEnabled)
         + Active(DecisionEnabled) + Active(SynthesizerEnabled) <= 1

\* A finished run of three full iterations: R E R E R E S.
C17_Witness ==
    /\ Done /\ Len(calls) = 7
    /\ \A i \in {1, 3, 5} : calls[i].c = "R" /\ calls[i + 1].c = "E"
    /\ calls[7].c = "S"

\* final_output as it stands in the current state: the state field of the
\* workflow; for process_query the final_answer of the returned dict, which
\* does not exist before the return.
FinalOutputNow ==
    IF engine = "workflow" THEN state.final_output
    ELSE IF Done THEN result.final_answer ELSE ""

\* C18 as stated: final_output is non-empty exactly when the Synthesizer has
\* been executed.
C18_NonEmptyIffSynthesized ==
    engine # "none" => (FinalOutputNow # "" <=> Count("S") >= 1)

\* C18: a non-empty final_output implies that the Synthesizer has been
\* executed, and once it has been executed final_output is non-empty exactly
\* when the text the Synthesizer returned is non-empty.
C18_NonEmptyOnlyIfSynthesized ==
    engine # "none" =>
      /\ FinalOutputNow # "" => Count("S") >= 1
      /\ Count("S") >= 1 => (FinalOutputNow # "" <=> LastOut("S") # "")

\* A finished run whose Synthesizer call succeeded with empty content.
C18_Witness ==
    /\ Done /\ Count("S") = 1
    /\ calls[Len(calls)].ok /\ calls[Len(calls)].out = ""
    /\ FinalOutputNow = ""

\* The phase the run is about to execute: a retrieval, the synthesis, or
\* something else. At the top of process_query's loop the `while` test
\* decides between the first two.
NextPhase ==
    IF pc = "research" THEN "retrieve"
    ELSE IF pc = "o_loop"
         THEN IF loc.iteration < loc.max_iterations THEN "retrieve"
              ELSE "synthesize"
    ELSE IF pc \in {"writer", "o_write_sufficient", "o_write_final"}
         THEN "synthesize"
    ELSE "other"

\* The tokens the analysis prompt documents for RECOMMENDATION
DocumentedTokens == {proceed_to_writing, need_web_search, need_more_research}

\* C19: for a verdict carrying a documented recommendation token, the
\* decision step follows the ordered first-match policy: sufficient ->
\* synthesize; else iteration_count >= budget -> synthesize; else not
\* escalated and need_web_search recommended -> set the flag and retrieve
\* again; else retrieve again; the flag changes in the third case only.
C19_DecisionPolicy ==
    [][ ( /\ pc \in {"supervisor", "o_analysis_done"}
          /\ calls[Len(calls)].rec \in DocumentedTokens )
        => LET verdict == calls[Len(calls)] IN
           IF verdict.sufficient
           THEN NextPhase' = "synthesize" /\ Escalated' = Escalated
           ELSE IF IterationCount >= Budget
           THEN NextPhase' = "synthesize" /\ Escalated' = Escalated
           ELSE IF ~Escalated /\ verdict.rec = need_web_search
           THEN NextPhase' = "retrieve" /\ Escalated'
           ELSE NextPhase' = "retrieve" /\ Escalated' = Escalated ]_vars

\* C20: at every phase boundary iteration_count equals the number of
\* Retriever calls made so far, failed calls included, and the iterations
\* value of the returned dict equals the total number of Retriever calls.
C20_IterationCountsRetrievals ==
    engine # "none" =>
      /\ IterationCount = Count("R")
      /\ Done => ReportedIterations = Count("R")

\* A finished run with at least two Retriever calls, one of which failed.
C20_Witness ==
    /\ Done /\ Count("R") >= 2
    /\ \E i \in CallsOf("R") : ~calls[i].ok
    /\ ReportedIterations = Count("R")

\* A run that was started on a thread whose earlier run had reached END
OnFinishedThread(c) ==
    /\ runs[c].pc # "idle"
    /\ runs[c].prior.exists /\ runs[c].prior.next = "END"
    /\ \E d \in Callers \ {c} :
         runs[d].thread = runs[c].thread /\ runs[d].pc = "done"

\* A run that was started on a thread whose earlier run was interrupted
\* before it reached END
OnInterruptedThread(c) ==
    /\ runs[c].pc # "idle"
    /\ runs[c].prior.exists /\ runs[c].prior.next # "END"
    /\ \E d \in Callers \ {c} :
         runs[d].thread = runs[c].thread /\ runs[d].pc = "interrupted"

\* C14: a run invoked with the thread id of a run that already reached END
\* invokes no collaborator and returns the result of that first run.
C14_FinishedSessionIdempotent ==
    \A c \in Callers :
      OnFinishedThread(c) =>
        /\ runs[c].ncalls = 0
        /\ runs[c].pc = "done" =>
             runs[c].result = RunResult(runs[c].prior.values)

\* C15: a run invoked with the thread id of an interrupted run starts at the
\* node the checkpoint names as next, with the iteration_count, the
\* escalation flag and the retrieval and evaluation results of the
\* checkpoint.
C15_ResumeFromCheckpoint ==
    \A c \in Callers :
      ( /\ OnInterruptedThread(c)
        /\ runs[c].ncalls = 0 /\ runs[c].pc # "interrupted" )
      => ( /\ runs[c].pc = runs[c].prior.next
           /\ runs[c].state.iteration_count = runs[c].prior.values.iteration_count
           /\ runs[c].state.use_web_search = runs[c].prior.values.use_web_search
           /\ runs[c].state.research_results = runs[c].prior.values.research_results
           /\ runs[c].state.analysis_results = runs[c].prior.values.analysis_results )

\* C16: when the runs of two callers use distinct thread ids, in every
\* interleaving of their steps each run's state (iteration_count, escalation
\* flag, retrieval output, evaluation, final_output) is the state the same
\* collaborator answers produce from a new WorkflowState, the checkpoint of
\* its thread is its own last one, and its result is built from that state.
C16_ConcurrentRunsIndependent ==
    \A c \in Callers, d \in Callers :
      ( /\ c # d
        /\ runs[c].pc # "idle" /\ runs[d].pc # "idle"
        /\ runs[c].thread # NoThreadId /\ runs[d].thread # NoThreadId
        /\ runs[c].thread # runs[d].thread )
      => ( /\ runs[c].state = runs[c].alone
           /\ runs[c].pc \notin {"done", "interrupted"} =>
                memory[runs[c].thread] = Checkpoint(runs[c].state, runs[c].pc)
           /\ runs[c].pc = "done" => runs[c].result = RunResult(runs[c].alone) )

\* Two runs on distinct threads in the middle of the graph at the same
\* time: one about to write after three iterations with escalation, the
\* other about to evaluate its second retrieval.
C16_Witness ==
    /\ runs[1].thread # runs[2].thread
    /\ runs[1].pc = "writer" /\ runs[1].state.iteration_count = 3
    /\ runs[1].state.use_web_search
    /\ runs[2].pc = "analysis" /\ runs[2].state.iteration_count = 2
    /\ ~runs[2].state.use_web_search

\* C21: after the state is created no step changes the query or the
\* iteration budget (in either engine), and in the workflow each node
\* changes only its own fields: research only research_results and
\* iteration_count, analysis only analysis_results, supervisor only
\* use_web_search, writer only final_output.
C21_PhaseFrames ==
    [][ /\ (engine = "workflow" /\ pc # "idle") =>
             /\ state'.query = state.query
             /\ state'.max_iterations = state.max_iterations
             /\ pc = "research" =>
                  state' = [state EXCEPT
                              !.research_results = state'.research_results,
                              !.iteration_count = state'.iteration_count]
             /\ pc = "analysis" =>
                  state' = [state EXCEPT
                              !.analysis_results = state'.analysis_results]
             /\ pc = "supervisor" =>
                  state' = [state EXCEPT
                              !.use_web_search = state'.use_web_search]
             /\ pc = "writer" =>
                  state' = [state EXCEPT !.final_output = state'.final_output]
             /\ pc \in {"END", "done"} => state' = state
        /\ (engine = "orchestrator" /\ pc # "idle") =>
             /\ loc'.query = loc.query
             /\ loc'.max_iterations = loc.max_iterations ]_vars

\* A finished workflow run in which every node has changed its fields: three
\* retrievals, an escalation, evaluations and a written answer, with the
\* query and the budget as at creation.
C21_Witness ==
    /\ Done /\ engine = "workflow"
    /\ state.query = "q" /\ state.max_iterations = DefaultMaxIterations
    /\ state.iteration_count = 3 /\ state.use_web_search
    /\ state.research_results # "" /\ state.analysis_results.present
    /\ state.final_output # ""

\* C22: every started run has a thread id; when the caller's config names
\* none, the id is a generated one that no other run has; when the config
\* names one, the run uses exactly that id.
C22_RunHasSessionId ==
    \A c \in Callers :
      runs[c].pc # "idle" =>
        /\ runs[c].thread \in ThreadIds
        /\ runs[c].config.has_thread =>
             runs[c].thread = runs[c].config.thread_id
        /\ ~runs[c].config.has_thread =>
             /\ runs[c].thread \in GeneratedIds
             /\ \A d \in Callers \ {c} :
                  runs[d].pc # "idle" => runs[d].thread # runs[c].thread

\* C23: the router never selects the "end" edge, so the workflow reaches END
\* only through the writer; in either engine no run ends, whether after
\* insufficient verdicts, failed collaborator calls or an exhausted budget,
\* without the Synthesizer having been called, and no run ends at the
\* decision step.
C23_NoEndWithoutSynthesizer ==
    /\ (engine = "workflow" /\ pc = "supervisor") =>
         /\ should_continue(SupervisorNode(state)) \in {"continue", "write"}
         /\ ConditionalEdge(should_continue(SupervisorNode(state))) # "END"
    /\ (engine = "workflow" /\ pc = "END") =>
         (Len(calls) > 0 /\ calls[Len(calls)].c = "S")
    /\ (engine = "orchestrator" /\ pc = "o_analysis_done") =>
         Decide(loc).pc \in {"o_loop", "o_write_sufficient", "o_write_final"}
    /\ Done => \E i \in CallsOf("S") : i = Len(calls)

\* A finished workflow run whose budget ran out with no sufficient verdict,
\* after a failed Retriever call and a failed Evaluator call, and whose last
\* call is the Synthesizer's.
C23_Witness ==
    /\ Done /\ engine = "workflow" /\ Count("R") = Budget
    /\ \A i \in CallsOf("E") : ~calls[i].sufficient
    /\ \E i \in CallsOf("R") : ~calls[i].ok
    /\ \E i \in CallsOf("E") : ~calls[i].ok
    /\ calls[Len(calls)].c = "S"

\* The kinds of workflow_log lines each phase of process_query writes
ResearchLines == {"starting research", "research failed", "research completed"}
AnalysisLines ==
    {"starting analysis", "analysis failed", "analysis completed",
     "recommendation"}
DecisionLines ==
    {"sufficient", "switching to web search", "need more research",
     "no clear next steps"}

IsIterationMarker(line) == line.kind = "iteration"

\* The iteration a log position belongs to: the markers up to it
IterationOf(log, p) ==
    Cardinality({q \in 1..p : IsIterationMarker(log[q])})

IsPrefix(s, t) == Len(s) <= Len(t) /\ SubSeq(t, 1, Len(s)) = s

\* C24: the workflow_log of process_query only grows by appending; its
\* iteration markers are numbered 1, 2, ..., k in this order, with k the
\* iteration count, which is the iterations value returned with the log;
\* and within an iteration a research line comes before every analysis
\* line and an analysis line before the decision line.
C24_TraceAppendOnlyOrdered ==
    /\ [](engine = "orchestrator" =>
           LET log == loc.workflow_log
               marks == SelectSeq(log, IsIterationMarker) IN
             /\ \A i \in 1..Len(marks) : marks[i].n = i
             /\ Len(marks) = loc.iteration
             /\ Done => ( /\ result.workflow_log = log
                          /\ result.iterations = Len(marks) )
             /\ \A p \in 1..Len(log) :
                  /\ log[p].kind \in ResearchLines => IterationOf(log, p) >= 1
                  /\ log[p].kind \in AnalysisLines =>
                       \E q \in 1..(p - 1) :
                         /\ log[q].kind = "research completed"
                         /\ IterationOf(log, q) = IterationOf(log, p)
                  /\ log[p].kind \in DecisionLines =>
                       \E q \in 1..(p - 1) :
                         /\ log[q].kind = "analysis completed"
                         /\ IterationOf(log, q) = IterationOf(log, p))
    /\ [][engine = "orchestrator" =>
            IsPrefix(loc.workflow_log, loc'.workflow_log)]_vars

\* A finished process_query run of three iterations whose log holds three
\* markers, an escalation decision and a later continue decision.
C24_Witness ==
    /\ Done /\ engine = "orchestrator" /\ result.iterations = 3
    /\ Len(SelectSeq(result.workflow_log, IsIterationMarker)) = 3
    /\ \E p, q \in 1..Len(result.workflow_log) :
         /\ p < q
         /\ result.workflow_log[p].kind = "switching to web search"
         /\ result.workflow_log[q].kind = "need more research"

\* A Retriever call of the run was made with prefer_web = true
WebRetrievalMade == \E i \in CallsOf("R") : calls[i].web

\* C25: in the workflow the flag use_web_search is set only when the next
\* node is research, so whenever it is set a retrieval with prefer_web =
\* true has been made or is the next step, and a result with
\* used_web_search = true comes from a run with such a retrieval; in
\* process_query a finished run can have prefer_web set without any such
\* retrieval, and then the flag was set in the last iteration
\* (iteration = max_iterations).
C25_EscalationFollowedByRetrieval ==
    /\ engine = "workflow" =>
         /\ state.use_web_search => (pc = "research" \/ WebRetrievalMade)
         /\ (Done /\ result.used_web_search) => WebRetrievalMade
    /\ (engine = "orchestrator" /\ loc.prefer_web /\ ~WebRetrievalMade) =>
         /\ loc.workflow_log[Len(loc.workflow_log)].kind
              = "switching to web search"
            \/ loc.iteration = loc.max_iterations
         /\ Done => loc.iteration = loc.max_iterations

\* A finished process_query run whose flag was set in the last iteration: no
\* retrieval with prefer_web = true was made.
C25_Witness ==
    /\ Done /\ engine = "orchestrator"
    /\ loc.prefer_web /\ ~WebRetrievalMade
    /\ loc.iteration = loc.max_iterations /\ loc.iteration >= 2

\* C26: every document add_documents has loaded can be searched by the
\* retrieval tool of the research agent, at every later query.
C26_AddedDocumentsRetrievable ==
    /\ facade.added \subseteq Retrievable(facade)
    /\ facade.queried => facade.added_before \subseteq facade.seen

\* The Evaluator call at position i of process_query's history succeeded
\* with an insufficient verdict whose recommendation names no next step:
\* no 'web_search' while prefer_web is still false, and no 'more_research'
NoNextStep(i) ==
    LET recommendation == Lower(calls[i].rec) IN
      /\ calls[i].ok /\ ~calls[i].sufficient
      /\ ~(Contains(WebSearchToken, recommendation) /\ ~calls[i - 1].web)
      /\ ~Contains(MoreResearchToken, recommendation)

\* C27: in process_query, after a successful insufficient evaluation whose
\* recommendation names no next step the loop is left whatever budget
\* remains: no further Retriever or Evaluator call is made and the next call
\* is the writer's. Every finished run without a sufficient verdict has
\* called the writer exactly once, as its last call, with the last research
\* result and the last analysis text (the placeholder texts when there were
\* none), and returns success = false and iterations equal to the number of
\* Retriever calls.
C27_BreakOnUnclearRecommendation ==
    engine = "orchestrator" =>
      /\ \A i \in CallsOf("E") :
           NoNextStep(i) =>
             /\ i = Len(calls) => pc \in {"o_analysis_done", "o_write_final"}
             /\ i < Len(calls) => (Len(calls) = i + 1 /\ calls[i + 1].c = "S")
      /\ (Done /\ \A i \in CallsOf("E") : ~calls[i].sufficient) =>
           /\ Count("S") = 1 /\ calls[Len(calls)].c = "S"
           /\ calls[Len(calls)].in1 =
                (IF Count("R") = 0 THEN "No research results available"
                 ELSE LastOut("R"))
           /\ calls[Len(calls)].in2 =
                (IF Count("E") = 0 THEN "No analysis available"
                 ELSE LastOut("E"))
           /\ result.success = FALSE
           /\ result.iterations = Count("R")

\* A finished process_query run with budget 3 that stopped after its first
\* iteration on the recommendation proceed_to_writing with an insufficient
\* verdict.
C27_Witness ==
    /\ Done /\ engine = "orchestrator" /\ loc.max_iterations = 3
    /\ Len(calls) = 3 /\ calls[2].c = "E" /\ NoNextStep(2)
    /\ calls[2].rec = proceed_to_writing
    /\ calls[3].c = "S" /\ result.iterations = 1 /\ ~result.success

=============================================================================
